---- MODULE Spec2Model ----
(***************************************************************************)
(* Grasp trial outcome classification and the deduplicated result store    *)
(* (core/performance_metrics.py), the variant factories                    *)
(* (robots/gripper_factory.py, robots/gripper.py, objects/                 *)
(* object_factory.py) and the physics engine they call, seen through the   *)
(* calls the code makes.                                                   *)
(*                                                                         *)
(* Lengths are fixed-point numbers: an integer n stands for the Python     *)
(* float n * 0.025 (metres).  A Python value is a record [t, v]: t is the  *)
(* Python type ("float" or "int"), v the integer payload.  A CSV row is a  *)
(* sequence of strings, as csv.reader returns it.  Joints are numbered     *)
(* from 1 (Python numbers them from 0); body ids count from 0.             *)
(***************************************************************************)
EXTENDS Integers, Sequences, FiniteSets, TLC

VARIABLES
    connected,          \* engine: p.isConnected()
    bodyPos,            \* engine: base position of each graspable body
    engineLog,          \* engine calls made by the last operation, in order
    assessCall,         \* assess_grasp_quality: arguments of the last call
    assessRet,          \* assess_grasp_quality: value the last call returned
    fileExists,         \* result file: os.path.isfile(output_path)
    fileRows,           \* result file: its rows, first to last
    headerWrites,       \* number of times the header row was written
    instances,          \* PerformanceMetrics objects constructed so far
    lastOp,             \* result store: the last operation and its outcome
    prevRows,           \* result store: fileRows before the last operation
    submitted,          \* result store: the records given to record_attempt
                        \* so far
    pc,                 \* per worker: position in __init__ / record_attempt
    existing_records,   \* per worker: record_attempt's local set
    metrics_data,       \* per worker: record_attempt's argument
    calls,              \* per worker: record_attempt calls begun
    staleWrites,        \* rows appended although the test, redone on the file
                        \* as it is at the append, would have skipped them
    bodies,             \* engine: models loaded / bodies created, in order
    factoryCall,        \* last factory call: function, tag, pose, outcome
    gripper,            \* the manipulator object: class, recorded spawn pose,
                        \* joint partition
    motors,             \* engine: motor command standing on each joint
    friction,           \* engine: lateral friction of each joint's link
    basePose,           \* engine: base position and orientation of the
                        \* manipulator body
    baseVelocity,       \* engine: linear velocity commanded for the base
    gripperOp,          \* manipulator: the last operation and its arguments
    gripperPrev,        \* manipulator: the state the last operation began in
    object,             \* the graspable object: class, dimensions, mass
    objectPose,         \* engine: base pose of the object's body
    objectOp,           \* object: the last operation, its arguments and result
    sample,             \* pose sampler: configuration used and pose drawn
    batch,              \* run_batch_generation: arguments, loop position,
                        \* results, value returned
    generateCalls       \* calls of generate_data_for_shape, in order

engineVars  == <<connected, bodyPos, engineLog>>
assessVars  == <<assessCall, assessRet>>
fileVars    == <<fileExists, fileRows, headerWrites>>
storeVars   == <<instances, lastOp, prevRows, submitted>>
workerVars  == <<pc, existing_records, metrics_data, calls, staleWrites>>
factoryVars == <<bodies, factoryCall>>
gripperVars == <<gripper, motors, friction, basePose, baseVelocity,
                 gripperOp, gripperPrev>>
objectVars  == <<object, objectPose, objectOp>>
batchVars   == <<batch, generateCalls>>
laterVars   == <<gripperVars, objectVars, sample, batchVars>>
vars == <<engineVars, assessVars, fileVars, storeVars, workerVars, factoryVars,
          laterVars>>

\* what the engine's own steps, the classifier, the sequential store, the
\* workers and the factories leave alone
engineFrame  == <<assessVars, fileVars, storeVars, workerVars, factoryVars,
                  laterVars>>
assessFrame  == <<fileVars, storeVars, workerVars, factoryVars, laterVars>>
storeFrame   == <<engineVars, assessVars, workerVars, factoryVars, laterVars>>
workerFrame  == <<engineVars, assessVars, storeVars, factoryVars, laterVars>>
factoryFrame == <<assessVars, fileVars, storeVars, workerVars, laterVars>>

\* what the manipulator's operations, the object's operations, the pose
\* sampler and the batch run leave alone
coreVars     == <<connected, bodyPos, assessVars, fileVars, storeVars,
                  workerVars, factoryVars>>
gripperFrame == <<coreVars, objectVars, sample, batchVars>>
objectFrame  == <<coreVars, gripperVars, sample, batchVars>>
samplerFrame == <<coreVars, engineLog, gripperVars, objectVars, batchVars>>
batchFrame   == <<coreVars, engineLog, gripperVars, objectVars, sample>>

None == [t |-> "NoneType", v |-> 0]

(***************************************************************************)
(* Bounds of the model.                                                    *)
(***************************************************************************)
MaxZ         == 6    \* heights range over 0..MaxZ units of 0.025 m
MaxLift      == 1    \* lifts of the records submitted to the store
MaxInstances == 2    \* PerformanceMetrics constructions
MaxCalls     == 2    \* record_attempt calls per concurrent worker
MaxBodies    == 1    \* bodies the engine holds

(***************************************************************************)
(* Python values and str().                                                *)
(***************************************************************************)
PyFloat(n) == [t |-> "float", v |-> n]
PyInt(n)   == [t |-> "int", v |-> n]

Abs(n) == IF n < 0 THEN -n ELSE n

\* the decimals of f thousandths, as repr(float) prints them: no trailing
\* zeros, at least one digit
FracStr(f) ==
    IF f = 0 THEN "0"
    ELSE IF f % 100 = 0 THEN ToString(f \div 100)
    ELSE IF f % 10 = 0
         THEN (IF f < 100 THEN "0" ELSE "") \o ToString(f \div 10)
    ELSE (IF f < 10 THEN "00" ELSE IF f < 100 THEN "0" ELSE "") \o ToString(f)

\* str(x) of a Python float or int
PyStr(x) ==
    IF x.t = "int" THEN ToString(x.v)
    ELSE LET m == Abs(x.v) * 25    \* thousandths: one unit is 0.025
         IN  (IF x.v < 0 THEN "-" ELSE "") \o ToString(m \div 1000)
                 \o "." \o FracStr(m % 1000)

\* tuple(map(str, metrics_data))
StrTuple(data) == [i \in 1..Len(data) |-> PyStr(data[i])]

(***************************************************************************)
(* The physics engine, as far as the classifier reads it.                  *)
(***************************************************************************)
ObjectIds == {0, 1}

Heights == 0..MaxZ

\* positions a caller may pass as start_position
StartPositions == {<<x, 0, z>> : x \in {0, 1}, z \in Heights}

\* positions the engine may report for a body
BodyPositions == {<<0, 0, z>> : z \in Heights}

\* the engine moves a body (p.stepSimulation)
StepSimulation ==
    /\ connected
    /\ \E b \in ObjectIds, pos \in BodyPositions :
          /\ bodyPos[b] # pos
          /\ bodyPos' = [bodyPos EXCEPT ![b] = pos]
    /\ UNCHANGED <<connected, engineLog>>
    /\ UNCHANGED engineFrame

\* the engine goes away (the GUI window is closed, p.disconnect())
Disconnect ==
    /\ connected
    /\ connected' = FALSE
    /\ UNCHANGED <<bodyPos, engineLog>>
    /\ UNCHANGED engineFrame

\* the engine is connected again (p.connect())
Connect ==
    /\ ~connected
    /\ connected' = TRUE
    /\ UNCHANGED <<bodyPos, engineLog>>
    /\ UNCHANGED engineFrame

(***************************************************************************)
(* PerformanceMetrics.assess_grasp_quality                                 *)
(***************************************************************************)
SuccessThreshold == 4    \* 0.1
PartialThreshold == 2    \* 0.05

FullSuccess    == 1
PartialSuccess == 2
Failed         == 0

\* the status code with the upper test weakened to >=
StatusCodeInclusive(vertical_delta) ==
    IF vertical_delta >= SuccessThreshold THEN FullSuccess
    ELSE IF PartialThreshold <= vertical_delta /\ vertical_delta <= SuccessThreshold
         THEN PartialSuccess
    ELSE Failed

\* the if / elif / else on vertical_delta
StatusCode(vertical_delta) ==
    IF vertical_delta > SuccessThreshold THEN FullSuccess
    ELSE IF PartialThreshold <= vertical_delta /\ vertical_delta <= SuccessThreshold
         THEN PartialSuccess
    ELSE Failed

\* the difference taken the wrong way round
VerticalDeltaSwapped(z_final, z_initial) == z_initial - z_final

\* vertical_delta = z_final - z_initial
VerticalDelta(z_final, z_initial) == z_final - z_initial

\* the early return handing back the engine's idea of the position
DisconnectedReturnStale(target_id, start_position) ==
    [status_code |-> Failed, vertical_delta |-> 0,
     end_position |-> bodyPos[target_id],
     log |-> <<"isConnected", "getBasePositionAndOrientation">>]

\* if not p.isConnected(): return 0, 0.0, start_position
DisconnectedReturn(target_id, start_position) ==
    [status_code |-> Failed, vertical_delta |-> 0,
     end_position |-> start_position,
     log |-> <<"isConnected">>]

\* the rest of the body: query the pose, take the difference, classify
ConnectedReturn(target_id, start_position) ==
    LET end_position   == bodyPos[target_id]
        vertical_delta == VerticalDelta(end_position[3], start_position[3])
    IN  [status_code |-> StatusCode(vertical_delta),
         vertical_delta |-> vertical_delta,
         end_position |-> end_position,
         log |-> <<"isConnected", "getBasePositionAndOrientation">>]

assess_grasp_quality ==
    \E target_id \in ObjectIds, start_position \in StartPositions :
       LET r == IF ~connected
                THEN DisconnectedReturn(target_id, start_position)
                ELSE ConnectedReturn(target_id, start_position)
       IN  /\ assessCall' = [target_id |-> target_id,
                             start_position |-> start_position,
                             connected |-> connected,
                             engine_position |-> bodyPos[target_id]]
           /\ assessRet' = [status_code |-> r.status_code,
                            vertical_delta |-> r.vertical_delta,
                            end_position |-> r.end_position]
           /\ engineLog' = r.log
           /\ UNCHANGED <<connected, bodyPos>>
           /\ UNCHANGED assessFrame

(***************************************************************************)
(* The result store: PerformanceMetrics.__init__, _initialize_csv and      *)
(* record_attempt on one output path.                                      *)
(***************************************************************************)
column_names ==
    <<"Position X", "Position Y", "Position Z",
      "Orientation Roll", "Orientation Pitch", "Orientation Yaw",
      "Initial Z", "Final Z", "Delta Z",
      "Success">>

\* the record of one trial: spawn position, roll/pitch/yaw, initial z,
\* final z, delta z and the status code
TrialRecord(x, lift) ==
    <<PyFloat(x), PyFloat(0), PyFloat(16),
      PyFloat(0), PyFloat(0), PyFloat(0),
      PyFloat(16), PyFloat(16 + lift), PyFloat(lift),
      PyInt(StatusCode(lift))>>

\* the records submitted to the store: two spawn radii one unit apart, lifts
\* of 0, 0.075, 0.15, ...
Records == {TrialRecord(x, 3 * l) : x \in {10, 11}, l \in 0..MaxLift}

\* csv.writer.writerow with floats cut to a multiple of 0.05
WriterRowRounded(data) ==
    [i \in 1..Len(data) |->
        IF data[i].t = "float"
        THEN PyStr(PyFloat(data[i].v - (data[i].v % 2)))
        ELSE PyStr(data[i])]

\* csv.writer.writerow: every non-string field is written as str(field)
WriterRow(data) == [i \in 1..Len(data) |-> PyStr(data[i])]

\* _initialize_csv without the existence test
InitializeCsvAlways(exists, rows) ==
    [exists |-> TRUE, rows |-> <<column_names>>, wrote |-> TRUE]

\* _initialize_csv: open(mode="w") and write the header, only when
\* os.path.isfile says the file is not there
InitializeCsv(exists, rows) ==
    IF ~exists
    THEN [exists |-> TRUE, rows |-> <<column_names>>, wrote |-> TRUE]
    ELSE [exists |-> exists, rows |-> rows, wrote |-> FALSE]

\* the reading loop with next(reader) called once too often
ExistingRecordsSkipTwo(exists, rows) ==
    IF exists THEN {rows[i] : i \in 3..Len(rows)} ELSE {}

\* the reading loop: skip the first row, collect the others as tuples
ExistingRecords(exists, rows) ==
    IF exists THEN {rows[i] : i \in 2..Len(rows)} ELSE {}

\* the membership test keyed on the spawn position alone
IsNewByPosition(data, existing) ==
    \A r \in existing : SubSeq(r, 1, 3) # SubSeq(StrTuple(data), 1, 3)

\* record_tuple not in existing_records
IsNew(data, existing) == StrTuple(data) \notin existing

\* the row put in front of the data rows instead of at the end
AppendRowFirst(rows, data) ==
    IF rows = <<>> THEN <<WriterRow(data)>>
    ELSE <<rows[1], WriterRow(data)>> \o Tail(rows)

\* open(mode="a") and writerow: one row at the end of the file
AppendRow(rows, data) == Append(rows, WriterRow(data))

\* PerformanceMetrics(output_path)
Construct ==
    /\ instances < MaxInstances
    /\ LET f == InitializeCsv(fileExists, fileRows)
       IN  /\ fileExists' = f.exists
           /\ fileRows' = f.rows
           /\ headerWrites' = headerWrites + (IF f.wrote THEN 1 ELSE 0)
           /\ lastOp' = [op |-> "__init__", arg |-> <<>>, wrote |-> f.wrote]
    /\ instances' = instances + 1
    /\ prevRows' = fileRows
    /\ UNCHANGED submitted
    /\ UNCHANGED storeFrame

\* record_attempt(metrics_data), run from its first line to its last
record_attempt ==
    /\ instances > 0
    /\ \E data \in Records :
          LET existing == ExistingRecords(fileExists, fileRows)
              new      == IsNew(data, existing)
          IN  /\ fileRows' = IF new THEN AppendRow(fileRows, data) ELSE fileRows
              /\ fileExists' = (fileExists \/ new)
              /\ lastOp' = [op |-> "record_attempt", arg |-> data, wrote |-> new]
              /\ submitted' = submitted \cup {data}
    /\ prevRows' = fileRows
    /\ UNCHANGED <<headerWrites, instances>>
    /\ UNCHANGED storeFrame

(***************************************************************************)
(* Two workers on the same output path, with no lock: each constructs a    *)
(* PerformanceMetrics and calls record_attempt; the existence test, the    *)
(* create-with-header, the read of the existing rows and the append are    *)
(* separate steps that interleave.                                         *)
(***************************************************************************)
Workers == {1, 2}

\* the records the workers submit: two trials one unit apart in spawn radius
WorkerRecords == {TrialRecord(10, 0), TrialRecord(11, 0)}

\* _initialize_csv, line 28: os.path.isfile(self.output_path)
InitCheck(w) ==
    /\ pc[w] = "start"
    /\ pc' = [pc EXCEPT ![w] = IF fileExists THEN "ready" ELSE "create"]
    /\ UNCHANGED <<fileVars, existing_records, metrics_data, calls, staleWrites>>
    /\ UNCHANGED workerFrame

\* _initialize_csv, lines 29-31: open(mode="w") empties the file, the header
\* is written
InitCreate(w) ==
    /\ pc[w] = "create"
    /\ fileExists' = TRUE
    /\ fileRows' = <<column_names>>
    /\ headerWrites' = headerWrites + 1
    /\ pc' = [pc EXCEPT ![w] = "ready"]
    /\ UNCHANGED <<existing_records, metrics_data, calls, staleWrites>>
    /\ UNCHANGED workerFrame

\* record_attempt, lines 71-80: load the existing rows
ReadExisting(w) ==
    /\ pc[w] = "ready"
    /\ calls[w] < MaxCalls
    /\ \E data \in WorkerRecords :
          metrics_data' = [metrics_data EXCEPT ![w] = data]
    /\ existing_records' =
          [existing_records EXCEPT ![w] = ExistingRecords(fileExists, fileRows)]
    /\ calls' = [calls EXCEPT ![w] = calls[w] + 1]
    /\ pc' = [pc EXCEPT ![w] = "append"]
    /\ UNCHANGED <<fileVars, staleWrites>>
    /\ UNCHANGED workerFrame

\* record_attempt, lines 82-87: test against the rows loaded, append or skip
AppendOrSkip(w) ==
    /\ pc[w] = "append"
    /\ LET data == metrics_data[w]
           new  == IsNew(data, existing_records[w])
       IN  /\ fileRows' = IF new THEN AppendRow(fileRows, data) ELSE fileRows
           /\ fileExists' = (fileExists \/ new)
           /\ staleWrites' =
                 IF new /\ ~IsNew(data, ExistingRecords(fileExists, fileRows))
                 THEN staleWrites + 1 ELSE staleWrites
    /\ pc' = [pc EXCEPT ![w] = "ready"]
    /\ UNCHANGED <<headerWrites, existing_records, metrics_data, calls>>
    /\ UNCHANGED workerFrame

(***************************************************************************)
(* The variant constructors: GripperFactory.create_gripper, select_gripper *)
(* and ObjectFactory.create_object, and the engine calls the constructors  *)
(* they reach make.                                                        *)
(***************************************************************************)
\* variant tags a caller may pass
Tags == {"pr2", "PR2", "sdh", "custom", "cuboid", "Cylinder", "cylinder", "gripper"}

\* str.lower() on those tags
Lower(tag) ==
    CASE tag = "PR2" -> "pr2"
      [] tag = "Cylinder" -> "cylinder"
      [] OTHER -> tag

\* poses a caller may pass: position and orientation quaternion
Poses ==
    {[position |-> <<0, 0, 16>>, orientation |-> <<0, 0, 0, 1>>],
     [position |-> <<10, 0, 16>>, orientation |-> <<0, 1, 0, 0>>]}

\* joint types, in joint order, of the model files the engine may be given
JointLayouts ==
    {<<>>, <<"revolute", "revolute">>, <<"revolute", "fixed", "revolute">>}

\* the if / elif chain with the final else building the custom gripper
GripperClassForDefaulting(t) ==
    CASE t = "pr2" -> "PR2Gripper"
      [] t = "sdh" -> "SDHGripper"
      [] OTHER -> "CustomGripper"

\* the if / elif / else chain of create_gripper and of select_gripper
GripperClassFor(t) ==
    CASE t = "pr2" -> "PR2Gripper"
      [] t = "sdh" -> "SDHGripper"
      [] t = "custom" -> "CustomGripper"
      [] OTHER -> "ValueError"

\* the if / elif / else chain of create_object
ObjectClassFor(t) ==
    CASE t = "cuboid" -> "CuboidObject"
      [] t = "cylinder" -> "CylinderObject"
      [] OTHER -> "ValueError"

\* the model file each gripper class passes to BaseGripper.__init__
UrdfFile(class) ==
    CASE class = "PR2Gripper" -> "pr2_gripper.urdf"
      [] class = "SDHGripper" -> "models/sdh.urdf"
      [] class = "CustomGripper" -> "custom_gripper.urdf"

\* get_joint_info: the joints that are not fixed, and the fixed ones
ActiveJoints(joints) == {i \in 1..Len(joints) : joints[i] # "fixed"}
FixedJoints(joints)  == {i \in 1..Len(joints) : joints[i] = "fixed"}

\* for joint_index in self.active_joints: resetJointState, setJointMotorControl2
RECURSIVE SdhInitCalls(_)
SdhInitCalls(joints) ==
    IF joints = <<>> THEN <<>>
    ELSE (IF joints[1] # "fixed"
          THEN <<"resetJointState", "setJointMotorControl2">> ELSE <<>>)
         \o SdhInitCalls(Tail(joints))

\* the engine calls of a gripper constructor, in order
GripperInitCalls(class, joints) ==
    <<"loadURDF", "changeDynamics", "getNumJoints">>
        \o [i \in 1..Len(joints) |-> "getJointInfo"]
        \o (IF class = "SDHGripper" THEN SdhInitCalls(joints) ELSE <<>>)

\* the engine calls of BaseObject._create_object, in order
ObjectInitCalls ==
    <<"createVisualShape", "createCollisionShape", "createMultiBody",
      "changeDynamics">>

\* a gripper constructor: load the model at the pose, read its joints
NewGripper(fn, tag, pose, class) ==
    /\ Len(bodies) < MaxBodies
    /\ \E joints \in JointLayouts :
          /\ bodies' = Append(bodies, [model |-> UrdfFile(class),
                                       position |-> pose.position,
                                       orientation |-> pose.orientation,
                                       joints |-> joints])
          /\ engineLog' = GripperInitCalls(class, joints)
          /\ factoryCall' =
                [fn |-> fn, tag |-> tag, pose |-> pose, outcome |-> "returned",
                 result |-> [class |-> class,
                             position |-> pose.position,
                             orientation |-> pose.orientation,
                             gripper |-> Len(bodies),
                             active_joints |-> ActiveJoints(joints),
                             fixed_joints |-> FixedJoints(joints)]]

\* raise ValueError(...)
RaiseValueError(fn, tag, pose) ==
    /\ factoryCall' = [fn |-> fn, tag |-> tag, pose |-> pose,
                       outcome |-> "ValueError", result |-> None]
    /\ engineLog' = <<>>
    /\ UNCHANGED bodies

\* GripperFactory.create_gripper(gripper_type, position, orientation)
create_gripper ==
    /\ \E tag \in Tags, pose \in Poses :
          LET class == GripperClassFor(Lower(tag))
          IN  IF class = "ValueError"
              THEN RaiseValueError("create_gripper", tag, pose)
              ELSE NewGripper("create_gripper", tag, pose, class)
    /\ UNCHANGED <<connected, bodyPos>>
    /\ UNCHANGED factoryFrame

\* select_gripper(gripper_type, position, orientation)
select_gripper ==
    /\ \E tag \in Tags, pose \in Poses :
          LET class == GripperClassFor(tag)
          IN  IF class = "ValueError"
              THEN RaiseValueError("select_gripper", tag, pose)
              ELSE NewGripper("select_gripper", tag, pose, class)
    /\ UNCHANGED <<connected, bodyPos>>
    /\ UNCHANGED factoryFrame

\* height=0.8, the default of both object classes
DefaultHeight == 32

\* ObjectFactory.create_object(object_type) with the default dimensions
create_object ==
    /\ \E tag \in Tags :
          LET class == ObjectClassFor(Lower(tag))
              spawn == [position |-> <<0, 0, DefaultHeight \div 2>>,
                        orientation |-> <<0, 0, 0, 1>>]
          IN  IF class = "ValueError"
              THEN RaiseValueError("create_object", tag, spawn)
              ELSE /\ Len(bodies) < MaxBodies
                   /\ bodies' = Append(bodies, [model |-> class,
                                                position |-> spawn.position,
                                                orientation |-> spawn.orientation,
                                                joints |-> <<>>])
                   /\ engineLog' = ObjectInitCalls
                   /\ factoryCall' =
                         [fn |-> "create_object", tag |-> tag, pose |-> spawn,
                          outcome |-> "returned",
                          result |-> [class |-> class, height |-> DefaultHeight,
                                      object_id |-> Len(bodies)]]
    /\ UNCHANGED <<connected, bodyPos>>
    /\ UNCHANGED factoryFrame

(***************************************************************************)
(* The manipulators: src/robots/gripper.py (BaseGripper and its three      *)
(* subclasses) and src/grippers/manipulator_base.py (ManipulatorInterface  *)
(* and TwoFingerManipulator).  Joint angles are in thousandths of a        *)
(* radian, so 0.548 is 548, -0.5 is -500 and 1.0 is 1000.                  *)
(***************************************************************************)
\* most joints a loaded model has
MaxJoints == 3

\* the concrete manipulator classes
GripperClasses ==
    {"PR2Gripper", "SDHGripper", "CustomGripper", "TwoFingerManipulator"}

\* joint types, in joint order, of the models the engine may load
ModelLayouts ==
    UNION {[1..n -> {"revolute", "fixed"}] : n \in 0..MaxJoints}

\* get_joint_info / _extract_joint_indices: the indices of the joints that
\* are not fixed, in joint order, and of the fixed ones
ActiveJointSeq(joints) ==
    SelectSeq([i \in 1..Len(joints) |-> i], LAMBDA i : joints[i] # "fixed")

FixedJointSeq(joints) ==
    SelectSeq([i \in 1..Len(joints) |-> i], LAMBDA i : joints[i] = "fixed")

\* the motor a freshly loaded joint has: no position commanded
LoadedMotor ==
    [controlMode |-> "VELOCITY_CONTROL", targetPosition |-> 0, force |-> 0]

\* setJointMotorControl2(controlMode=POSITION_CONTROL, targetPosition, force)
Motor(target, force) ==
    [controlMode |-> "POSITION_CONTROL", targetPosition |-> target,
     force |-> force]

\* for target, joint in zip(targets, joints): setJointMotorControl2(...)
\* zip stops at the shorter of the two lists
ZipCommand(m, joints, targets, force) ==
    LET n == IF Len(joints) < Len(targets) THEN Len(joints) ELSE Len(targets)
    IN  [j \in DOMAIN m |->
            IF \E k \in 1..n : joints[k] = j
            THEN Motor(targets[CHOOSE k \in 1..n : joints[k] = j], force)
            ELSE m[j]]

\* for joint in joints: setJointMotorControl2(..., targetPosition=target)
AllCommand(m, joints, target, force) ==
    ZipCommand(m, joints, [k \in 1..Len(joints) |-> target], force)

\* an opening that moves each commanded joint on from where it was commanded
OpenMotorsRelative(class, active, m) ==
    [j \in DOMAIN m |->
        IF class # "CustomGripper" /\ \E k \in 1..Len(active) : active[k] = j
        THEN Motor(m[j].targetPosition + 548, 100)
        ELSE m[j]]

\* the motor commands of open_gripper / activate
OpenMotors(class, active, m) ==
    CASE class = "PR2Gripper" -> ZipCommand(m, active, <<548, 548>>, 100)
      [] class = "SDHGripper" -> AllCommand(m, active, -500, 100)
      [] class = "TwoFingerManipulator" ->
            ZipCommand(m, active, <<548, 548>>, 500)
      [] class = "CustomGripper" -> m

\* the motor commands of close_gripper / deactivate
CloseMotors(class, active, m) ==
    CASE class = "PR2Gripper" -> ZipCommand(m, active, <<0, 0>>, 500)
      [] class = "SDHGripper" -> AllCommand(m, active, 1000, 500)
      [] class = "TwoFingerManipulator" -> ZipCommand(m, active, <<0, 0>>, 500)
      [] class = "CustomGripper" -> m

\* changeDynamics(joint, lateralFriction=1.0) as close_gripper calls it
CloseFriction(class, active, f) ==
    IF class \in {"PR2Gripper", "SDHGripper"}
    THEN [j \in DOMAIN f |->
            IF \E k \in 1..Len(active) : active[k] = j THEN "1.0" ELSE f[j]]
    ELSE f

\* self.sim_step(steps=200, delay=0.005) at the end of open and close
SettleTicks(class) ==
    IF class \in {"PR2Gripper", "SDHGripper"} THEN 200 ELSE 0

\* the motors after the constructor: SDHGripper.__init__ commands -0.5 on
\* every active joint, the others command nothing
ConstructedMotors(class, joints) ==
    IF class = "SDHGripper"
    THEN AllCommand([j \in 1..Len(joints) |-> LoadedMotor],
                    ActiveJointSeq(joints), -500, 100)
    ELSE [j \in 1..Len(joints) |-> LoadedMotor]

\* engine: resetBasePositionAndOrientation keeping the orientation it had
ResetBasePositionOnly(pose, position, orientation) ==
    [position |-> position, orientation |-> pose.orientation]

\* engine: p.resetBasePositionAndOrientation(body, position, orientation)
ResetBasePose(pose, position, orientation) ==
    [position |-> position, orientation |-> orientation]

\* a velocity is kept as the fraction the code divides out: heights in units
\* of 0.025 m over a step count times a delay in units of 0.01 s
ZeroVelocity == [num |-> 0, den |-> 1]

\* a manipulator constructor has run: the pose recorded on the object, the
\* model loaded at that pose, the joints partitioned
InitGripper ==
    \E class \in GripperClasses, joints \in ModelLayouts, pose \in Poses :
        /\ gripper = [class |-> class,
                      position |-> pose.position,
                      orientation |-> pose.orientation,
                      active_joints |-> ActiveJointSeq(joints),
                      fixed_joints |-> FixedJointSeq(joints)]
        /\ motors = ConstructedMotors(class, joints)
        /\ friction = [j \in 1..Len(joints) |-> "as loaded"]
        /\ basePose = pose
        /\ baseVelocity = <<0, 0, ZeroVelocity>>
        /\ gripperOp = [op |-> "__init__", args |-> <<pose>>, ticks |-> 0]
        /\ gripperPrev = None

\* the state an operation begins in, and the operation that led to it
Before ==
    [op |-> gripperOp.op, motors |-> motors, friction |-> friction,
     basePose |-> basePose, gripper |-> gripper]

\* the classes that derive from BaseGripper
BaseGripperClasses == {"PR2Gripper", "SDHGripper", "CustomGripper"}

\* the body shared by open_gripper and activate
Open ==
    /\ motors' = OpenMotors(gripper.class, gripper.active_joints, motors)
    /\ gripperOp' = [op |-> "open", args |-> <<>>,
                     ticks |-> SettleTicks(gripper.class)]
    /\ gripperPrev' = Before
    /\ UNCHANGED <<gripper, friction, basePose, baseVelocity, engineLog>>
    /\ UNCHANGED gripperFrame

\* the body shared by close_gripper and deactivate
Close ==
    /\ motors' = CloseMotors(gripper.class, gripper.active_joints, motors)
    /\ friction' = CloseFriction(gripper.class, gripper.active_joints, friction)
    /\ gripperOp' = [op |-> "close", args |-> <<>>,
                     ticks |-> SettleTicks(gripper.class)]
    /\ gripperPrev' = Before
    /\ UNCHANGED <<gripper, basePose, baseVelocity, engineLog>>
    /\ UNCHANGED gripperFrame

\* the body shared by set_position and relocate
Teleport ==
    \E pose \in Poses :
        /\ basePose' = ResetBasePose(basePose, pose.position, pose.orientation)
        /\ gripperOp' = [op |-> "set_position", args |-> <<pose>>, ticks |-> 0]
        /\ gripperPrev' = Before
        /\ UNCHANGED <<gripper, motors, friction, baseVelocity, engineLog>>
        /\ UNCHANGED gripperFrame

\* PR2Gripper / SDHGripper / CustomGripper .open_gripper()
open_gripper ==
    /\ gripper # None
    /\ gripper.class \in BaseGripperClasses
    /\ Open

\* TwoFingerManipulator.activate()
activate ==
    /\ gripper # None
    /\ gripper.class = "TwoFingerManipulator"
    /\ Open

\* PR2Gripper / SDHGripper / CustomGripper .close_gripper()
close_gripper ==
    /\ gripper # None
    /\ gripper.class \in BaseGripperClasses
    /\ Close

\* TwoFingerManipulator.deactivate()
deactivate ==
    /\ gripper # None
    /\ gripper.class = "TwoFingerManipulator"
    /\ Close

\* BaseGripper.set_position(position, orientation)
set_position ==
    /\ gripper # None
    /\ gripper.class \in BaseGripperClasses
    /\ Teleport

\* ManipulatorInterface.relocate(new_position, new_orientation)
relocate ==
    /\ gripper # None
    /\ gripper.class = "TwoFingerManipulator"
    /\ Teleport

\* most ticks a vertical motion is asked for
MaxSteps == 2

\* base heights the engine may report, in units of 0.025 m
MotionHeights == {8, 16, 24}

\* delays a caller passes, in units of 0.01 s: 0 (headless) and the default
Delays == {0, 1}

\* delta_z = (target_z - start_z) / steps if steps > 0 else 0.0
\* velocity = delta_z / delay if delay > 0 else 0.0
Velocity(target_z, start_z, steps, delay) ==
    IF steps > 0 /\ delay > 0 /\ target_z # start_z
    THEN [num |-> target_z - start_z, den |-> steps * delay]
    ELSE ZeroVelocity

\* one engine call with its arguments
Call(fn, arg) == [fn |-> fn, arg |-> arg]

\* a motion that works the velocity out again, before every tick, from the
\* height the base has reached (zs[k] is the height after tick k)
MotionCallsTracking(start_z, zs, target_z, steps, delay) ==
    <<Call("getBasePositionAndOrientation", <<>>)>>
        \o [i \in 1..(2 * steps) |->
              IF i % 2 = 1
              THEN Call("resetBaseVelocity",
                        <<0, 0, Velocity(target_z,
                                         IF i = 1 THEN start_z
                                         ELSE zs[(i - 1) \div 2],
                                         steps, delay)>>)
              ELSE Call("stepSimulation", <<>>)]
        \o <<Call("resetBaseVelocity", <<0, 0, ZeroVelocity>>)>>

\* the engine calls of move_up_smoothly / execute_vertical_motion, in order:
\* the pose read, then per tick the velocity command and the step, then the
\* stop
MotionCalls(start_z, zs, target_z, steps, delay) ==
    LET velocity == Velocity(target_z, start_z, steps, delay)
    IN  <<Call("getBasePositionAndOrientation", <<>>)>>
            \o [i \in 1..(2 * steps) |->
                  IF i % 2 = 1
                  THEN Call("resetBaseVelocity", <<0, 0, velocity>>)
                  ELSE Call("stepSimulation", <<>>)]
            \o <<Call("resetBaseVelocity", <<0, 0, ZeroVelocity>>)>>

\* the body shared by move_up_smoothly and execute_vertical_motion; the
\* height the base has after each tick is the engine's to decide (contact
\* may hold the base back or let it overshoot)
VerticalMotion ==
    \E target_z \in MotionHeights, steps \in -1..MaxSteps, delay \in Delays :
      \E zs \in [1..steps -> MotionHeights] :
        LET start_z == basePose.position[3]
            end_z   == IF steps > 0 THEN zs[steps] ELSE start_z
        IN  /\ gripperOp' =
                  [op |-> "vertical",
                   args |-> <<target_z, steps, delay>>,
                   ticks |-> IF steps > 0 THEN steps ELSE 0,
                   heights |-> zs,
                   calls |-> MotionCalls(start_z, zs, target_z, steps, delay)]
            /\ basePose' = [basePose EXCEPT !.position[3] = end_z]
            /\ baseVelocity' = <<0, 0, ZeroVelocity>>
            /\ gripperPrev' = Before
            /\ UNCHANGED <<gripper, motors, friction, engineLog>>
            /\ UNCHANGED gripperFrame

\* BaseGripper.move_up_smoothly(target_z, steps, delay)
move_up_smoothly ==
    /\ gripper # None
    /\ gripper.class \in BaseGripperClasses
    /\ VerticalMotion

\* ManipulatorInterface.execute_vertical_motion(target_height, motion_steps,
\* step_time)
execute_vertical_motion ==
    /\ gripper # None
    /\ gripper.class = "TwoFingerManipulator"
    /\ VerticalMotion

(***************************************************************************)
(* The graspable objects: src/objects/base_object.py, cuboid.py and        *)
(* cylinder.py.  Lengths are in units of 0.025 m and object heights are    *)
(* even numbers of units, so that height / 2 is a whole number of units.   *)
(* An optional argument is <<>> when omitted (None) and <<value>> when     *)
(* given.                                                                  *)
(***************************************************************************)
\* heights an object is built with: 0.2 m, 0.4 m and the default 0.8 m
ObjectHeights == {8, 16, DefaultHeight}

\* the objects the two constructors build: CuboidObject(width, depth,
\* height, mass) and CylinderObject(radius, height, mass); masses in grams,
\* the radius in millimetres
Objects ==
    {[class |-> "CuboidObject", width |-> w, depth |-> 2, height |-> h,
      mass |-> m] : w \in {2, 4}, h \in ObjectHeights, m \in {100, 500}}
    \cup
    {[class |-> "CylinderObject", radius |-> r, height |-> h, mass |-> m] :
        r \in {40, 50}, h \in ObjectHeights, m \in {100, 500}}

\* the upright orientation [0, 0, 0, 1]
Upright == <<0, 0, 0, 1>>

\* poses the simulation or a caller may put the object in
ObjectPositions == {<<0, 0, 4>>, <<1, 0, 16>>, <<0, 2, 0>>}
ObjectOrientations == {Upright, <<1, 0, 0, 0>>}

\* BaseObject.get_spawn_position: [0, 0, self.height / 2]
SpawnPosition(obj) == <<0, 0, obj.height \div 2>>

\* a grasp centre that a cylinder reports at its top face
GraspCenterCylinderTop(obj) ==
    CASE obj.class = "CuboidObject" -> <<0, 0, obj.height \div 2>>
      [] obj.class = "CylinderObject" -> <<0, 0, obj.height>>

\* CuboidObject.get_grasp_center and CylinderObject.get_grasp_center
GraspCenter(obj) ==
    CASE obj.class = "CuboidObject" -> <<0, 0, obj.height \div 2>>
      [] obj.class = "CylinderObject" -> <<0, 0, obj.height \div 2>>

\* a reset that goes back to the whole spawn pose as soon as either argument
\* is omitted
ResetPoseCoupled(obj, position, orientation) ==
    IF position = <<>> \/ orientation = <<>>
    THEN [position |-> SpawnPosition(obj), orientation |-> Upright]
    ELSE [position |-> position[1], orientation |-> orientation[1]]

\* reset_position: each argument that is None takes its default, then
\* p.resetBasePositionAndOrientation(object_id, position, orientation)
ResetPose(obj, position, orientation) ==
    [position |-> IF position = <<>> THEN SpawnPosition(obj)
                  ELSE position[1],
     orientation |-> IF orientation = <<>> THEN Upright ELSE orientation[1]]

\* an object constructor has run: createMultiBody(basePosition=spawn)
InitObject ==
    \E obj \in Objects :
        /\ object = obj
        /\ objectPose = [position |-> SpawnPosition(obj),
                         orientation |-> Upright]
        /\ objectOp = [op |-> "__init__", args |-> <<>>, result |-> <<>>,
                       from |-> None]

\* engine: simulation steps and contacts move the object
MoveObject ==
    /\ object # None
    /\ \E position \in ObjectPositions, orientation \in ObjectOrientations :
          objectPose' = [position |-> position, orientation |-> orientation]
    /\ objectOp' = [op |-> "stepSimulation", args |-> <<>>, result |-> <<>>,
                    from |-> objectPose]
    /\ UNCHANGED <<object, engineLog>>
    /\ UNCHANGED objectFrame

\* obj.get_grasp_center()
get_grasp_center ==
    /\ object # None
    /\ objectOp' = [op |-> "get_grasp_center", args |-> <<>>,
                    result |-> GraspCenter(object), from |-> objectPose]
    /\ UNCHANGED <<object, objectPose, engineLog>>
    /\ UNCHANGED objectFrame

\* obj.reset_position(position=None, orientation=None)
reset_position ==
    /\ object # None
    /\ \E position \in {<<>>} \cup {<<q>> : q \in ObjectPositions},
          orientation \in {<<>>} \cup {<<q>> : q \in ObjectOrientations} :
          /\ objectPose' = ResetPose(object, position, orientation)
          /\ objectOp' = [op |-> "reset_position",
                          args |-> <<position, orientation>>,
                          result |-> <<>>, from |-> objectPose]
    /\ UNCHANGED <<object, engineLog>>
    /\ UNCHANGED objectFrame

(***************************************************************************)
(* The pose sampler.  Its configuration is MANIPULATOR_SPECS of            *)
(* src/launcher.py, in hundredths (0.25 is 25).  The sampling itself is    *)
(* not among the source files and follows section 4.1 of the               *)
(* specification: each quantity is its base plus a uniform draw from its   *)
(* range.  A draw from (lo, hi) is lo + (hi - lo) * k / SampleGrain for    *)
(* k in 0..SampleGrain; sampled values are kept multiplied by SampleGrain, *)
(* so that they stay integers.                                             *)
(***************************************************************************)
\* resolution of a uniform draw
SampleGrain == 2

\* a configuration whose two-finger radius range is written hi, lo
ManipulatorSpecsSwapped ==
    [two_finger |->
        [cuboid_radius |-> 25, cylinder_radius |-> 22,
         radius_variation |-> <<5, -5>>, y_offset |-> <<-5, 5>>,
         z_base_offset |-> -10, z_variation |-> <<-10, 10>>,
         roll_range |-> <<-50, 50>>, approach_distance |-> 0],
     three_finger |->
        [cuboid_radius |-> 35, cylinder_radius |-> 30,
         radius_variation |-> <<-8, 8>>, y_offset |-> <<-8, 8>>,
         z_base_offset |-> -15, z_variation |-> <<-15, 15>>,
         roll_range |-> <<-30, 30>>, approach_distance |-> 5]]

\* MANIPULATOR_SPECS
MANIPULATOR_SPECS ==
    [two_finger |->
        [cuboid_radius |-> 25, cylinder_radius |-> 22,
         radius_variation |-> <<-5, 5>>, y_offset |-> <<-5, 5>>,
         z_base_offset |-> -10, z_variation |-> <<-10, 10>>,
         roll_range |-> <<-50, 50>>, approach_distance |-> 0],
     three_finger |->
        [cuboid_radius |-> 35, cylinder_radius |-> 30,
         radius_variation |-> <<-8, 8>>, y_offset |-> <<-8, 8>>,
         z_base_offset |-> -15, z_variation |-> <<-15, 15>>,
         roll_range |-> <<-30, 30>>, approach_distance |-> 5]]

\* the object kinds a configuration has a base radius for
ObjectKinds == {"cuboid", "cylinder"}

\* the base radius of a configuration for an object kind
BaseRadius(cfg, kind) ==
    IF kind = "cuboid" THEN cfg.cuboid_radius ELSE cfg.cylinder_radius

\* U(lo, hi) at draw k, times SampleGrain
Uniform(range, k) == range[1] * SampleGrain + (range[2] - range[1]) * k

\* one pose drawn for a manipulator configuration and an object kind
sample_pose ==
    \E m \in DOMAIN MANIPULATOR_SPECS, kind \in ObjectKinds :
      \E kr, ky, kz, ka \in 0..SampleGrain :
        LET cfg == MANIPULATOR_SPECS[m]
        IN  sample' =
              [manipulator |-> m,
               kind        |-> kind,
               radius      |-> BaseRadius(cfg, kind) * SampleGrain
                                  + Uniform(cfg.radius_variation, kr),
               y           |-> Uniform(cfg.y_offset, ky),
               z           |-> cfg.z_base_offset * SampleGrain
                                  + Uniform(cfg.z_variation, kz),
               roll        |-> Uniform(cfg.roll_range, ka)]
    /\ UNCHANGED engineLog
    /\ UNCHANGED samplerFrame

(***************************************************************************)
(* The batch run: run_batch_generation of src/batch_generate.py.  The      *)
(* call, each pass of its loop over the selected combinations, and the     *)
(* summary with the return are the steps.  generate_data_for_shape is      *)
(* outside the repository's source files: a call of it returns, or raises  *)
(* KeyboardInterrupt, or raises another exception; an interrupt may also   *)
(* arrive after the call has returned, while the try block is still        *)
(* printing.  An empty sequence stands for both None and [] (the code      *)
(* tests `if combinations:`).                                              *)
(***************************************************************************)
\* most grasps asked for per combination
MaxGrasps == 2

\* most names a combinations filter holds
MaxFilter == 2

\* the four gripper / object pairs, in the order they are run
all_combinations ==
    <<(<<"pr2", "cuboid">>), (<<"pr2", "cylinder">>),
      (<<"sdh", "cuboid">>), (<<"sdh", "cylinder">>)>>

\* f"{g}-{o}"
ComboKey(combo) == combo[1] \o "-" \o combo[2]

\* str.upper() on a gripper tag
Upper(g) ==
    CASE g = "pr2" -> "PR2"
      [] g = "sdh" -> "SDH"
      [] OTHER -> g

\* f"{gripper_type.upper()} x {object_type}" (x is the multiplication sign)
ComboName(combo) == Upper(combo[1]) \o " x " \o combo[2]

\* names a caller may list: two valid ones and one that names no combination
FilterNames == {"pr2-cuboid", "sdh-cylinder", "pr2-sphere"}

\* the combinations argument: None, or a list of names, repeats allowed
Filters == UNION {[1..n -> FilterNames] : n \in 0..MaxFilter}

\* selected = [combo_dict[c] for c in combinations if c in combo_dict], or
\* all_combinations when no filter is given
Selected(combinations) ==
    IF combinations # <<>>
    THEN LET all   == {all_combinations[i] : i \in DOMAIN all_combinations}
             valid == SelectSeq(combinations,
                                LAMBDA c : \E p \in all : ComboKey(p) = c)
         IN  [i \in 1..Len(valid) |->
                CHOOSE p \in all : ComboKey(p) = valid[i]]
    ELSE all_combinations

\* what a call of generate_data_for_shape may do, and, when it returns,
\* whether an interrupt arrives during the prints that end the try block
Outcomes ==
    {[kind |-> "returned", msg |-> ""],
     [kind |-> "KeyboardInterrupt", msg |-> ""],
     [kind |-> "KeyboardInterruptAfterReturn", msg |-> ""],
     [kind |-> "Exception", msg |-> "p.connect failed"],
     [kind |-> "Exception", msg |-> "Unknown object type"]}

\* the keyword arguments of the call at lines 90-94
GenerateKwargs(combo, grasps_per_case, use_gui) ==
    [object_type |-> combo[2], num_grasps |-> grasps_per_case,
     gripper_type |-> combo[1]]

\* one entry of results (the duration is a wall-clock reading, left out)
Entry(combo, grasps, status) ==
    [combination |-> ComboName(combo), grasps |-> grasps, status |-> status]

\* results after one pass of the loop body.  When the call returns, the
\* SUCCESS entry is appended and the seconds-per-grasp print divides by
\* grasps_per_case: with 0 grasps that raises ZeroDivisionError inside the
\* try, and the except Exception branch appends a FAILED entry as well.
\* An interrupt during those prints comes after the SUCCESS entry too, and
\* the except KeyboardInterrupt branch appends an INTERRUPTED entry.
PassResults(results, combo, grasps_per_case, outcome) ==
    CASE outcome.kind = "returned" ->
            Append(results, Entry(combo, grasps_per_case, "SUCCESS"))
                \o (IF grasps_per_case = 0
                    THEN <<Entry(combo, 0, "FAILED: float division by zero")>>
                    ELSE <<>>)
      [] outcome.kind = "KeyboardInterruptAfterReturn" ->
            Append(results, Entry(combo, grasps_per_case, "SUCCESS"))
                \o <<Entry(combo, 0, "INTERRUPTED")>>
      [] outcome.kind = "KeyboardInterrupt" ->
            Append(results, Entry(combo, 0, "INTERRUPTED"))
      [] outcome.kind = "Exception" ->
            Append(results, Entry(combo, 0, "FAILED: " \o outcome.msg))

\* a loop that no outcome ends early
BreaksNever(outcome) == FALSE

\* a loop that any raised exception ends
BreaksOnRaise(outcome) == outcome.kind # "returned"

\* whether the pass leaves the loop: break, in except KeyboardInterrupt only
Breaks(outcome) ==
    outcome.kind \in {"KeyboardInterrupt", "KeyboardInterruptAfterReturn"}

\* sum(r['grasps'] for r in results)
RECURSIVE SumGrasps(_)
SumGrasps(results) ==
    IF results = <<>> THEN 0
    ELSE Head(results).grasps + SumGrasps(Tail(results))

\* the value of a function that returned without a value
ReturnNone == [t |-> "NoneType", v |-> <<>>]

\* run_batch_generation(grasps_per_case, combinations, use_gui) up to the
\* loop: the selection, and the early return without a value when a filter
\* names no combination
run_batch_generation ==
    /\ batch = None
    /\ \E grasps_per_case \in 0..MaxGrasps, combinations \in Filters,
          use_gui \in BOOLEAN :
          LET selected == Selected(combinations)
          IN  batch' =
                [pc |-> IF selected = <<>> THEN "returned" ELSE "loop",
                 grasps_per_case |-> grasps_per_case,
                 combinations |-> combinations,
                 use_gui |-> use_gui,
                 selected |-> selected,
                 idx |-> 0,
                 outcomes |-> <<>>,
                 results |-> <<>>,
                 summary |-> <<>>,
                 returned |-> ReturnNone]
    /\ UNCHANGED <<generateCalls, engineLog>>
    /\ UNCHANGED batchFrame

\* one pass of the loop body: the call of generate_data_for_shape for the
\* next selected combination, and the branch its outcome takes
RunCombination ==
    /\ batch # None
    /\ batch.pc = "loop"
    /\ \E outcome \in Outcomes :
          LET combo   == batch.selected[batch.idx + 1]
              results == PassResults(batch.results, combo,
                                     batch.grasps_per_case, outcome)
          IN  /\ generateCalls' =
                    Append(generateCalls,
                           GenerateKwargs(combo, batch.grasps_per_case,
                                          batch.use_gui))
              /\ batch' =
                    [batch EXCEPT
                       !.idx = @ + 1,
                       !.outcomes = Append(@, [kind |-> outcome.kind,
                                               msg |-> outcome.msg,
                                               entry |-> Len(results)]),
                       !.results = results,
                       !.pc = IF Breaks(outcome)
                                 \/ batch.idx + 1 = Len(batch.selected)
                              THEN "summary" ELSE "loop"]
    /\ UNCHANGED engineLog
    /\ UNCHANGED batchFrame

\* the final summary and `return results`
Summary ==
    /\ batch # None
    /\ batch.pc = "summary"
    /\ batch' =
          [batch EXCEPT
             !.pc = "returned",
             !.summary =
                <<[successful |->
                      Cardinality({i \in DOMAIN batch.results :
                                      batch.results[i].status = "SUCCESS"}),
                   total_grasps |-> SumGrasps(batch.results)]>>,
             !.returned = [t |-> "list", v |-> batch.results]]
    /\ UNCHANGED <<generateCalls, engineLog>>
    /\ UNCHANGED batchFrame

(***************************************************************************)
(* Specifications.  Every one starts from the same state: the engine       *)
(* connected, no result file, nothing constructed.                         *)
(***************************************************************************)
InitCore ==
    /\ connected = TRUE
    /\ bodyPos = [b \in ObjectIds |-> <<0, 0, 0>>]
    /\ engineLog = <<>>
    /\ assessCall = None
    /\ assessRet = None
    /\ fileExists = FALSE
    /\ fileRows = <<>>
    /\ headerWrites = 0
    /\ instances = 0
    /\ lastOp = [op |-> "none", arg |-> <<>>, wrote |-> FALSE]
    /\ prevRows = <<>>
    /\ submitted = {}
    /\ pc = [w \in Workers |-> "start"]
    /\ existing_records = [w \in Workers |-> {}]
    /\ metrics_data = [w \in Workers |-> <<>>]
    /\ calls = [w \in Workers |-> 0]
    /\ staleWrites = 0
    /\ bodies = <<>>
    /\ factoryCall = None

\* no manipulator constructed
NoGripper ==
    /\ gripper = None
    /\ motors = <<>>
    /\ friction = <<>>
    /\ basePose = None
    /\ baseVelocity = None
    /\ gripperOp = None
    /\ gripperPrev = None

\* no object constructed
NoObject ==
    /\ object = None
    /\ objectPose = None
    /\ objectOp = None

\* no batch run begun
NoBatch ==
    /\ batch = None
    /\ generateCalls = <<>>

Init ==
    /\ InitCore
    /\ NoGripper
    /\ NoObject
    /\ sample = None
    /\ NoBatch

\* the result store in sequential use
Next ==
    \/ Construct
    \/ record_attempt

Spec == Init /\ [][Next]_vars

\* the classifier against a running engine
NextAssess ==
    \/ assess_grasp_quality
    \/ StepSimulation
    \/ Disconnect
    \/ Connect

SpecAssess == Init /\ [][NextAssess]_vars

\* two workers sharing the result file
NextWorkers ==
    \E w \in Workers :
        \/ InitCheck(w)
        \/ InitCreate(w)
        \/ ReadExisting(w)
        \/ AppendOrSkip(w)

SpecWorkers == Init /\ [][NextWorkers]_vars

\* the variant constructors
NextFactory ==
    \/ create_gripper
    \/ select_gripper
    \/ create_object

SpecFactory == Init /\ [][NextFactory]_vars

\* a manipulator constructed, then opened, closed and teleported in any order
InitManipulator ==
    /\ InitCore
    /\ InitGripper
    /\ NoObject
    /\ sample = None
    /\ NoBatch

NextGripper ==
    \/ open_gripper
    \/ activate
    \/ close_gripper
    \/ deactivate
    \/ set_position
    \/ relocate

SpecGripper == InitManipulator /\ [][NextGripper]_vars

\* a manipulator constructed on a model of two movable joints, then moved
\* vertically any number of times
InitMotion ==
    /\ InitManipulator
    /\ gripper.active_joints = <<1, 2>>
    /\ gripper.fixed_joints = <<>>

NextMotion ==
    \/ move_up_smoothly
    \/ execute_vertical_motion

SpecMotion == InitMotion /\ [][NextMotion]_vars

\* an object constructed, then moved by the simulation, queried and reset
InitObjects ==
    /\ InitCore
    /\ NoGripper
    /\ InitObject
    /\ sample = None
    /\ NoBatch

NextObject ==
    \/ MoveObject
    \/ get_grasp_center
    \/ reset_position

SpecObject == InitObjects /\ [][NextObject]_vars

\* poses drawn one after another
NextSampler == sample_pose

SpecSampler == Init /\ [][NextSampler]_vars

\* one batch run, from the call to the return
NextBatch ==
    \/ run_batch_generation
    \/ RunCombination
    \/ Summary

SpecBatch == Init /\ [][NextBatch]_vars

(***************************************************************************)
(* Properties.                                                             *)
(***************************************************************************)
\* the data rows of a file: every row after the first
DataRows(rows) == {rows[i] : i \in 2..Len(rows)}

IsPrefix(s, t) == Len(s) <= Len(t) /\ SubSeq(t, 1, Len(s)) = s

Range(s) == {s[i] : i \in 1..Len(s)}

\* C1: with the engine connected, assess_grasp_quality returns code 1 iff
\* delta = final_z - initial_z is above 0.1, code 2 iff 0.05 <= delta <= 0.1,
\* and code 0 otherwise; a negative delta is always code 0.
C1_TierByDelta ==
    (assessCall # None /\ assessCall.connected) =>
        LET delta == assessCall.engine_position[3] - assessCall.start_position[3]
        IN  /\ (assessRet.status_code = 1) <=> (delta > 4)
            /\ (assessRet.status_code = 2) <=> (2 <= delta /\ delta <= 4)
            /\ (assessRet.status_code = 0) <=> (delta < 2)
            /\ assessRet.status_code \in {0, 1, 2}
            /\ (delta < 0 => assessRet.status_code = 0)

\* a connected call whose delta is exactly 0.1 came back Partial
C1_Witness ==
    /\ assessCall # None
    /\ assessCall.connected
    /\ assessCall.engine_position[3] - assessCall.start_position[3] = 4
    /\ assessRet.status_code = 2

\* C2: a call made while the engine is disconnected returns Failure, delta 0
\* and the caller's start_position as the final position, and does not ask
\* the engine for the pose.
C2_DisconnectedReturn ==
    (assessCall # None /\ ~assessCall.connected) =>
        /\ assessRet.status_code = 0
        /\ assessRet.vertical_delta = 0
        /\ assessRet.end_position = assessCall.start_position
        /\ "getBasePositionAndOrientation" \notin Range(engineLog)

\* a disconnected call whose start_position is not where the engine has the body
C2_Witness ==
    /\ assessCall # None
    /\ ~assessCall.connected
    /\ assessCall.start_position[1] # assessCall.engine_position[1]
    /\ assessCall.start_position[3] # assessCall.engine_position[3]
    /\ assessRet.end_position = assessCall.start_position

\* C3: on every return the delta is the returned final z minus the given
\* initial z, and two successive calls that return equal deltas return equal
\* status codes, whatever the object id, the heights and the connection state.
C3_DeltaAndPureTier ==
    [][assessRet' # None =>
          /\ assessRet'.vertical_delta =
                assessRet'.end_position[3] - assessCall'.start_position[3]
          /\ (assessRet # None
                 /\ assessRet.vertical_delta = assessRet'.vertical_delta)
             => assessRet.status_code = assessRet'.status_code]_vars

\* a disconnected return of delta 0 for a body the engine has elsewhere
C3_Witness ==
    /\ assessRet # None
    /\ ~assessCall.connected
    /\ assessCall.engine_position[3] > assessCall.start_position[3]
    /\ assessRet.vertical_delta = 0
    /\ assessRet.status_code = 0

\* C4: record_attempt with a record whose stringified tuple is already a
\* data row leaves the file as it was; the same record recorded twice on a
\* fresh store leaves one row after the header.
C4_DuplicateSkipped ==
    lastOp.op = "record_attempt" =>
        /\ StrTuple(lastOp.arg) \in DataRows(prevRows)
              => (fileRows = prevRows /\ ~lastOp.wrote)
        /\ prevRows = <<column_names, StrTuple(lastOp.arg)>>
              => Len(fileRows) = 2

\* the second recording of the only record of a fresh store
C4_Witness ==
    /\ lastOp.op = "record_attempt"
    /\ prevRows = <<column_names, StrTuple(lastOp.arg)>>
    /\ fileRows = prevRows

\* C5: every operation of the store keeps the rows already in the file, in
\* order, as a prefix of the file; a record_attempt that writes adds exactly
\* one row, at the end.
C5_AppendOnly ==
    [][/\ IsPrefix(fileRows, fileRows')
       /\ (lastOp'.op = "record_attempt" /\ lastOp'.wrote)
             => /\ Len(fileRows') = Len(fileRows) + 1
                /\ SubSeq(fileRows', 1, Len(fileRows)) = fileRows
       /\ ~lastOp'.wrote => fileRows' = fileRows]_vars

\* a row was appended to a file that already held data rows
C5_Witness ==
    /\ lastOp.op = "record_attempt"
    /\ lastOp.wrote
    /\ Len(prevRows) >= 3
    /\ Len(fileRows) = Len(prevRows) + 1
    /\ SubSeq(fileRows, 1, Len(prevRows)) = prevRows

\* C6: once a store has been constructed the file's first row is the header,
\* in the stated column order, and the header has been written exactly once.
C6_HeaderOnce ==
    /\ instances = 0 => (~fileExists /\ headerWrites = 0)
    /\ instances > 0 =>
          /\ fileExists
          /\ Len(fileRows) >= 1
          /\ fileRows[1] = <<"Position X", "Position Y", "Position Z",
                             "Orientation Roll", "Orientation Pitch",
                             "Orientation Yaw", "Initial Z", "Final Z",
                             "Delta Z", "Success">>
          /\ headerWrites = 1

\* a second construction on a file that holds data rows
C6_Witness ==
    /\ instances >= 2
    /\ lastOp.op = "__init__"
    /\ Len(fileRows) >= 2
    /\ headerWrites = 1

HasDuplicateRows ==
    \E i, j \in 2..Len(fileRows) : i < j /\ fileRows[i] = fileRows[j]

\* C8: with two workers and no lock the file comes to hold two identical
\* data rows, and only through an append made after the other worker's
\* append had made the appending worker's duplicate test out of date.
C8_DuplicatesOnlyByRace ==
    HasDuplicateRows => staleWrites > 0

\* both workers recorded the same record once and the file holds it twice
C8_Witness ==
    /\ calls = [w \in Workers |-> 1]
    /\ pc = [w \in Workers |-> "ready"]
    /\ metrics_data[1] = metrics_data[2]
    /\ fileRows = <<column_names, StrTuple(metrics_data[1]),
                    StrTuple(metrics_data[2])>>

\* C9: record_attempt appends the record exactly when its stringified tuple
\* equals no data row of the file, and then appends its stringified fields.
C9_AppendIffNew ==
    lastOp.op = "record_attempt" =>
        /\ lastOp.wrote <=> (StrTuple(lastOp.arg) \notin DataRows(prevRows))
        /\ lastOp.wrote => fileRows = Append(prevRows, StrTuple(lastOp.arg))
        /\ ~lastOp.wrote => fileRows = prevRows

\* a record was written although a stored row differs from it in one field only
C9_Witness ==
    /\ lastOp.op = "record_attempt"
    /\ lastOp.wrote
    /\ \E i \in 2..Len(prevRows) :
          Cardinality({k \in 1..10 : prevRows[i][k] # StrTuple(lastOp.arg)[k]}) = 1

\* the tags each constructor function takes as supported
Unrecognized(fn, tag) ==
    CASE fn = "select_gripper" -> tag \notin {"pr2", "sdh", "custom"}
      [] fn = "create_gripper" -> Lower(tag) \notin {"pr2", "sdh", "custom"}
      [] fn = "create_object" -> Lower(tag) \notin {"cuboid", "cylinder"}

\* C10 (as amended): a tag that select_gripper does not find in {pr2, sdh,
\* custom} as given, or that the two factories do not find in their supported
\* set after lower-casing it, raises ValueError with no engine call made and
\* the engine's bodies unchanged.
C10_UnrecognizedTagRaises ==
    [][(factoryCall' # None /\ Unrecognized(factoryCall'.fn, factoryCall'.tag))
          => /\ factoryCall'.outcome = "ValueError"
             /\ engineLog' = <<>>
             /\ bodies' = bodies]_vars

\* a bad tag was refused while the engine held a body
C10_Witness ==
    /\ factoryCall # None
    /\ factoryCall.fn = "create_gripper"
    /\ factoryCall.tag = "gripper"
    /\ factoryCall.outcome = "ValueError"
    /\ Len(bodies) = 1
    /\ engineLog = <<>>

\* C10 as stated: every tag outside {pr2, sdh, custom} (grippers) or
\* {cuboid, cylinder} (objects), compared as given, raises ValueError with no
\* engine call made.
C10_AsStated ==
    factoryCall # None =>
        LET supported == IF factoryCall.fn = "create_object"
                         THEN {"cuboid", "cylinder"}
                         ELSE {"pr2", "sdh", "custom"}
        IN  factoryCall.tag \notin supported
               => (factoryCall.outcome = "ValueError" /\ engineLog = <<>>)

\* the last two operations on the manipulator were both `a`
Twice(a) ==
    /\ gripper # None
    /\ gripperPrev # None
    /\ gripperOp.op = a
    /\ gripperPrev.op = a

\* C11: for every manipulator class, an open (open_gripper / activate) that
\* directly follows an open leaves the motor command of every joint, target
\* position and force, as the first open left it.
C11_OpenIdempotent ==
    Twice("open") => motors = gripperPrev.motors

\* a PR2 gripper with two active joints opened twice over: both joints hold
\* the open target
C11_Witness ==
    /\ Twice("open")
    /\ gripper.class = "PR2Gripper"
    /\ Len(gripper.active_joints) >= 2
    /\ \A k \in 1..2 : motors[gripper.active_joints[k]] = Motor(548, 100)

\* the target position a class commands to close
ClosedTarget(class) == IF class = "SDHGripper" THEN 1000 ELSE 0

\* C12: after a close (close_gripper / deactivate), whatever the class and
\* however many active joints the model has, every active joint has the
\* class's closed target commanded and its friction raised; and a close that
\* directly follows a close changes nothing.
C12_AsStated ==
    (gripper # None /\ gripperOp.op = "close") =>
        /\ \A k \in 1..Len(gripper.active_joints) :
              LET j == gripper.active_joints[k]
              IN  /\ motors[j].controlMode = "POSITION_CONTROL"
                  /\ motors[j].targetPosition = ClosedTarget(gripper.class)
                  /\ friction[j] = "1.0"
        /\ Twice("close") =>
              /\ motors = gripperPrev.motors
              /\ friction = gripperPrev.friction

\* C14: set_position / relocate leaves the base at exactly the position and
\* orientation it was given, runs no simulation tick, and leaves the motor
\* commands, the joint partition and the pose recorded at construction as
\* they were.
C14_TeleportExact ==
    (gripper # None /\ gripperOp.op = "set_position") =>
        /\ basePose.position = gripperOp.args[1].position
        /\ basePose.orientation = gripperOp.args[1].orientation
        /\ gripperOp.ticks = 0
        /\ motors = gripperPrev.motors
        /\ gripper = gripperPrev.gripper

\* a closed two-finger manipulator teleported away from the pose it was
\* built at
C14_Witness ==
    /\ gripper # None
    /\ gripperOp.op = "set_position"
    /\ gripper.class = "TwoFingerManipulator"
    /\ gripperPrev.op = "close"
    /\ Len(gripper.active_joints) >= 1
    /\ basePose.position # gripper.position
    /\ basePose.orientation # gripper.orientation
    /\ basePose # gripperPrev.basePose

\* C13: a vertical motion (move_up_smoothly / execute_vertical_motion) asked
\* for n >= 0 ticks reads the base height once, before the first tick, works
\* out one velocity from it, commands [0, 0, that velocity] before each of
\* exactly n ticks whatever height the base has reached meanwhile, and ends,
\* for every n and for n = 0 too, by commanding velocity [0, 0, 0].
C13_ConstantVelocityThenStop ==
    (gripper # None /\ gripperOp.op = "vertical" /\ gripperOp.args[2] >= 0) =>
        LET n     == gripperOp.args[2]
            log   == gripperOp.calls
            v     == Velocity(gripperOp.args[1],
                              gripperPrev.basePose.position[3],
                              n, gripperOp.args[3])
        IN  /\ Len(log) = 2 * n + 2
            /\ log[1].fn = "getBasePositionAndOrientation"
            /\ \A k \in 1..n :
                  /\ log[2 * k] = Call("resetBaseVelocity", <<0, 0, v>>)
                  /\ log[2 * k + 1].fn = "stepSimulation"
            /\ log[2 * n + 2] = Call("resetBaseVelocity", <<0, 0, ZeroVelocity>>)
            /\ gripperOp.ticks = n
            /\ baseVelocity = <<0, 0, ZeroVelocity>>

\* a two-tick ascent whose first tick left the base at another height than
\* it started from, and short of the target
C13_Witness ==
    /\ gripper # None
    /\ gripperOp.op = "vertical"
    /\ gripperOp.args = <<24, 2, 1>>
    /\ gripperPrev.basePose.position[3] = 8
    /\ gripperOp.heights[1] = 16
    /\ gripperOp.calls[4].arg[3] = [num |-> 16, den |-> 2]

\* C15: for a cuboid and for a cylinder of any height h, get_grasp_center()
\* returns [0, 0, h / 2], whatever the other dimensions, the mass and the
\* pose the object has in the simulation.
C15_GraspCenterMidHeight ==
    (object # None /\ objectOp.op = "get_grasp_center") =>
        /\ objectOp.result[1] = 0
        /\ objectOp.result[2] = 0
        /\ 2 * objectOp.result[3] = object.height

\* a heavy, wide cylinder of non-default height, lying away from its spawn
\* pose, asked for its grasp centre
C15_Witness ==
    /\ object # None
    /\ objectOp.op = "get_grasp_center"
    /\ object.class = "CylinderObject"
    /\ object.height = 16
    /\ object.radius = 50
    /\ object.mass = 500
    /\ objectPose = [position |-> <<1, 0, 16>>, orientation |-> <<1, 0, 0, 0>>]
    /\ objectOp.result = <<0, 0, 8>>

\* C16: whatever the simulation and earlier pose changes did, reset_position()
\* with no argument puts the object at [0, 0, height / 2] with orientation
\* [0, 0, 0, 1]; a given position or orientation is set exactly; and each
\* omitted argument takes its own default whether or not the other is given.
C16_ResetDefaultsIndependent ==
    (object # None /\ objectOp.op = "reset_position") =>
        LET position    == objectOp.args[1]
            orientation == objectOp.args[2]
        IN  /\ position = <<>> =>
                  /\ objectPose.position[1] = 0
                  /\ objectPose.position[2] = 0
                  /\ 2 * objectPose.position[3] = object.height
            /\ position # <<>> => objectPose.position = position[1]
            /\ orientation = <<>> => objectPose.orientation = <<0, 0, 0, 1>>
            /\ orientation # <<>> => objectPose.orientation = orientation[1]

\* an object the simulation had tipped over, reset with a position and no
\* orientation: it is upright at the given position, not at its spawn
\* position
C16_Witness ==
    /\ object # None
    /\ objectOp.op = "reset_position"
    /\ objectOp.args = <<(<< <<1, 0, 16>> >>), <<>> >>
    /\ objectOp.from.orientation = <<1, 0, 0, 0>>
    /\ objectPose = [position |-> <<1, 0, 16>>, orientation |-> <<0, 0, 0, 1>>]
    /\ objectPose.position # SpawnPosition(object)

\* the ranges a configuration holds
RangesOf(cfg) ==
    {cfg.radius_variation, cfg.y_offset, cfg.z_variation, cfg.roll_range}

\* C17: every range of every configuration of MANIPULATOR_SPECS has
\* min <= max; every sampled radius lies between base radius + jitter min
\* and base radius + jitter max of its configuration and object kind; and a
\* radius sampled for the two-finger manipulator and a cuboid lies in
\* [0.20, 0.30].
C17_RadiusWithinEnvelope ==
    /\ \A m \in DOMAIN MANIPULATOR_SPECS :
          \A range \in RangesOf(MANIPULATOR_SPECS[m]) : range[1] <= range[2]
    /\ sample # None =>
          LET cfg  == MANIPULATOR_SPECS[sample.manipulator]
              base == BaseRadius(cfg, sample.kind)
          IN  /\ (base + cfg.radius_variation[1]) * SampleGrain <= sample.radius
              /\ sample.radius <= (base + cfg.radius_variation[2]) * SampleGrain
              /\ (sample.manipulator = "two_finger" /\ sample.kind = "cuboid") =>
                    /\ 20 * SampleGrain <= sample.radius
                    /\ sample.radius <= 30 * SampleGrain

\* a two-finger / cuboid radius drawn at the top of its range: 0.30
C17_Witness ==
    /\ sample # None
    /\ sample.manipulator = "two_finger"
    /\ sample.kind = "cuboid"
    /\ sample.radius = 30 * SampleGrain

\* the batch run has a pass, the i-th, whose generation ended in `kind`
Ended(i, kind) ==
    /\ batch # None
    /\ i \in 1..Len(batch.outcomes)
    /\ batch.outcomes[i].kind = kind

\* the entry the i-th pass appended last
EntryOf(i) == batch.results[batch.outcomes[i].entry]

\* C18: when the generation of a combination is interrupted, that
\* combination is recorded as INTERRUPTED with 0 grasps, no later selected
\* combination is ever started, and the run goes on to its summary and
\* returns the results collected so far.
C18_InterruptStopsBatch ==
    batch # None => \A i \in DOMAIN batch.outcomes :
        Ended(i, "KeyboardInterrupt") =>
            /\ EntryOf(i) = Entry(batch.selected[i], 0, "INTERRUPTED")
            /\ batch.outcomes[i].entry = Len(batch.results)
            /\ Len(generateCalls) = i
            /\ batch.pc \in {"summary", "returned"}
            /\ batch.pc = "returned" =>
                  /\ batch.summary # <<>>
                  /\ batch.returned.t = "list"
                  /\ batch.returned.v = batch.results

\* all four combinations selected, the first generated, the second
\* interrupted: the run has returned two entries and started nothing more
C18_Witness ==
    /\ Ended(2, "KeyboardInterrupt")
    /\ Ended(1, "returned")
    /\ Len(batch.selected) = 4
    /\ batch.grasps_per_case = 2
    /\ batch.pc = "returned"
    /\ Len(batch.returned.v) = 2
    /\ batch.returned.v[1].status = "SUCCESS"
    /\ Len(generateCalls) = 2

\* no pass of the batch run was interrupted
NoInterrupt ==
    \A i \in DOMAIN batch.outcomes :
        batch.outcomes[i].kind \notin
            {"KeyboardInterrupt", "KeyboardInterruptAfterReturn"}

C20_AsStated ==
    batch # None =>
        \A i \in DOMAIN generateCalls :
            /\ {"object_type", "gripper_type", "num_grasps"}
                  \subseteq DOMAIN generateCalls[i]
            /\ \E k \in DOMAIN generateCalls[i] \
                          {"object_type", "gripper_type", "num_grasps"} :
                  generateCalls[i][k] = batch.use_gui

\* C21: in sequential use, from a store constructed on an absent file, after
\* any sequence of record_attempt calls the data rows of the file are
\* pairwise distinct and there are as many of them as there are distinct
\* stringified records among those submitted so far.
C21_RowsAreDistinctSubmissions ==
    instances > 0 =>
        /\ \A i, j \in 2..Len(fileRows) : fileRows[i] = fileRows[j] => i = j
        /\ Len(fileRows) - 1 = Cardinality({StrTuple(r) : r \in submitted})

\* three different records submitted, one of them again after the others:
\* three data rows
C21_Witness ==
    /\ instances > 0
    /\ Cardinality(submitted) = 3
    /\ Len(fileRows) = 4
    /\ lastOp.op = "record_attempt"
    /\ ~lastOp.wrote
    /\ StrTuple(lastOp.arg) = fileRows[2]

\* C22: with two workers constructing a store on the same absent path and
\* recording, in every interleaving a data row once in the file stays in the
\* file: no step, the create-with-header write of _initialize_csv included,
\* removes a row another worker has appended.
C22_AsStated ==
    [][DataRows(fileRows) \subseteq DataRows(fileRows')]_vars

\* the class, or ValueError, that the other of the two gripper constructors
\* gives for the tag of the last call
OtherConstructor ==
    IF factoryCall.fn = "create_gripper"
    THEN GripperClassFor(factoryCall.tag)
    ELSE GripperClassFor(Lower(factoryCall.tag))

\* C23: select_gripper and GripperFactory.create_gripper agree on every tag,
\* in any letter case, and pose: a call of one raises ValueError exactly when
\* the other raises it for the same tag, and otherwise returns a gripper of
\* the class the other returns, built at the pose given.
C23_AsStated ==
    (factoryCall # None
        /\ factoryCall.fn \in {"create_gripper", "select_gripper"}) =>
        IF OtherConstructor = "ValueError"
        THEN factoryCall.outcome = "ValueError"
        ELSE /\ factoryCall.outcome = "returned"
             /\ factoryCall.result.class = OtherConstructor
             /\ factoryCall.result.position = factoryCall.pose.position
             /\ factoryCall.result.orientation = factoryCall.pose.orientation

\* C24: a vertical motion never divides by zero: asked for no tick or fewer
\* (steps <= 0) it steps the simulation not once and its only velocity
\* command is the final [0, 0, 0]; asked for steps > 0 ticks with a delay of
\* 0 it commands, before each tick, a velocity that is not zero and points
\* from the height read towards the target whenever the two differ.
C24_AsStated ==
    (gripper # None /\ gripperOp.op = "vertical") =>
        LET target_z == gripperOp.args[1]
            steps    == gripperOp.args[2]
            delay    == gripperOp.args[3]
            start_z  == gripperPrev.basePose.position[3]
            log      == gripperOp.calls
        IN  /\ steps <= 0 =>
                  /\ gripperOp.ticks = 0
                  /\ Len(log) = 2
                  /\ log[2] = Call("resetBaseVelocity", <<0, 0, ZeroVelocity>>)
            /\ (steps > 0 /\ delay = 0 /\ target_z # start_z) =>
                  \A k \in 1..steps :
                      LET v == log[2 * k].arg[3]
                      IN  (v.num * v.den) * (target_z - start_z) > 0

\* C25: when run_batch_generation ends, results holds exactly one entry per
\* combination started, in start order; an entry's grasps is grasps_per_case
\* exactly when its status is SUCCESS and 0 otherwise, so the total reported
\* is grasps_per_case times the number of SUCCESS entries; and when the
\* filter names no valid combination nothing is generated and no results are
\* returned.
C25_AsStated ==
    (batch # None /\ batch.pc = "returned") =>
        IF batch.selected = <<>>
        THEN /\ generateCalls = <<>>
             /\ batch.returned.t = "NoneType"
        ELSE /\ batch.returned.t = "list"
             /\ Len(batch.returned.v) = Len(generateCalls)
             /\ \A i \in DOMAIN batch.returned.v :
                   LET r == batch.returned.v[i]
                   IN  /\ i <= Len(generateCalls)
                          => r.combination = ComboName(batch.selected[i])
                       /\ (r.grasps = batch.grasps_per_case)
                             <=> (r.status = "SUCCESS")
                       /\ r.status # "SUCCESS" => r.grasps = 0
             /\ batch.summary[1].total_grasps =
                   batch.grasps_per_case * batch.summary[1].successful

====
